---- MODULE Spec2Model ----
(***************************************************************************)
(* Model of the UDP STUN server of rust-stun (src/src/udp_server.rs):      *)
(* the message codec (StunMessage::parse / StunMessage::build), the        *)
(* XOR-MAPPED-ADDRESS builder and the listener loop (serve /               *)
(* receive_and_send).                                                      *)
(*                                                                         *)
(* Bytes are integers 0..255, byte arrays are sequences (Rust index i is   *)
(* position i+1 here), Rust strings are sequences of one-character         *)
(* strings.  Peers are IPv4 socket addresses.  A u32 is kept as its four   *)
(* base-256 digits, most significant first, so that every integer of the  *)
(* model stays below 2^31.                                                *)
(***************************************************************************)
EXTENDS Integers, Sequences, FiniteSets, TLC

\* ------------------------------------------------------------------------
\* Bounds of the model
\* ------------------------------------------------------------------------

\* Number of distinct transaction ids the peers use (TransactionId(1..MaxTid)).
MaxTid == 2

\* ------------------------------------------------------------------------
\* Program constants
\* ------------------------------------------------------------------------

\* const MAGIC_COOKIE: u32 = 0x2112A442
MAGIC_COOKIE == 554869826

\* let mut buffer = [0u8; 1024]
BufSize == 1024

\* ------------------------------------------------------------------------
\* Integer and string primitives of the Rust standard library
\* ------------------------------------------------------------------------

Pow2(n) == 2 ^ n

\* u{8k}::to_be_bytes: the k bytes of v, most significant first.
to_be_bytes(v, k) == [i \in 1..k |-> (v \div Pow2(8 * (k - i))) % 256]

RECURSIVE be_value(_, _)
\* the value of the first n bytes of bs, most significant first
be_value(bs, n) == IF n = 0 THEN 0 ELSE be_value(bs, n - 1) * 256 + bs[n]

\* u{8k}::from_be_bytes
from_be_bytes(bs) == be_value(bs, Len(bs))

\* u32::from_be_bytes: the four bytes are the four base-256 digits
u32_from_be_bytes(bs) == [i \in 1..4 |-> bs[i]]

\* u32::to_be_bytes
u32_to_be_bytes(v) == [i \in 1..4 |-> v[i]]

RECURSIVE xor_bits(_, _, _)
\* the low w bits of a ^ b
xor_bits(a, b, w) ==
    IF w = 0 THEN 0
    ELSE xor_bits(a, b, w - 1)
            + (((a \div Pow2(w - 1)) + (b \div Pow2(w - 1))) % 2) * Pow2(w - 1)

\* a ^ b on w-bit unsigned integers
BitXor(a, b, w) == xor_bits(a, b, w)

\* a ^ b on u32
u32_xor(a, b) == [i \in 1..4 |-> BitXor(a[i], b[i], 8)]

\* format!("{:0>8b}", x) for a u8: its 8 binary digits, most significant first
format_08b(x) == [i \in 1..8 |-> IF (x \div Pow2(8 - i)) % 2 = 1 THEN "1" ELSE "0"]

\* String::remove(idx): the string without the character at 0-based idx
string_remove(s, idx) == SubSeq(s, 1, idx) \o SubSeq(s, idx + 2, Len(s))

RECURSIVE radix2_prefix(_, _)
\* value of the first n binary digits of s
radix2_prefix(s, n) ==
    IF n = 0 THEN 0
    ELSE 2 * radix2_prefix(s, n - 1) + (IF s[n] = "1" THEN 1 ELSE 0)

\* value of a string of binary digits
radix2_value(s) == radix2_prefix(s, Len(s))

\* u{w}::from_str_radix(s, 2): Err on the empty string, on a non-digit and on
\* a value that does not fit w bits
from_str_radix2(s, w) ==
    IF s = <<>> \/ \E i \in 1..Len(s) : s[i] \notin {"0", "1"}
        THEN [ok |-> FALSE, val |-> 0]
    ELSE IF radix2_value(s) >= Pow2(w) THEN [ok |-> FALSE, val |-> 0]
    ELSE [ok |-> TRUE, val |-> radix2_value(s)]

DecDigit == <<"0", "1", "2", "3", "4", "5", "6", "7", "8", "9">>

\* number of decimal digits of a u16
num_digits(n) ==
    IF n < 10 THEN 1 ELSE IF n < 100 THEN 2 ELSE IF n < 1000 THEN 3
    ELSE IF n < 10000 THEN 4 ELSE 5

\* ToString for a u8 or u16: decimal digits, no leading zeros
int_to_string(n) ==
    [i \in 1..num_digits(n) |-> DecDigit[((n \div (10 ^ (num_digits(n) - i))) % 10) + 1]]

DigitValue(c) == CHOOSE d \in 0..9 : DecDigit[d + 1] = c

RECURSIVE dec_prefix(_, _)
\* value of the first n decimal digits of s
dec_prefix(s, n) == IF n = 0 THEN 0 ELSE 10 * dec_prefix(s, n - 1) + DigitValue(s[n])

dec_value(s) == dec_prefix(s, Len(s))

\* str::parse::<u{w}>() for w <= 16: Err on the empty string, on a non-digit
\* and on overflow (more than 5 digits overflow a u16)
str_parse_uint(s, w) ==
    IF s = <<>> \/ \E i \in 1..Len(s) : \A d \in 1..10 : DecDigit[d] # s[i]
        THEN [ok |-> FALSE, val |-> 0]
    ELSE IF Len(s) > 5 THEN [ok |-> FALSE, val |-> 0]
    ELSE IF dec_value(s) >= Pow2(w) THEN [ok |-> FALSE, val |-> 0]
    ELSE [ok |-> TRUE, val |-> dec_value(s)]

\* position of the j-th occurrence of sep in s
nth_sep(s, sep, j) ==
    CHOOSE i \in 1..Len(s) :
        s[i] = sep /\ Cardinality({k \in 1..i : s[k] = sep}) = j

\* str::split(sep).collect(): the pieces between the occurrences of sep
str_split(s, sep) ==
    LET n == Cardinality({i \in 1..Len(s) : s[i] = sep})
    IN  [j \in 1..(n + 1) |->
            SubSeq(s, IF j = 1 THEN 1 ELSE nth_sep(s, sep, j - 1) + 1,
                      IF j = n + 1 THEN Len(s) ELSE nth_sep(s, sep, j) - 1)]

\* SocketAddr::to_string for a V4 address: "a.b.c.d:port"
socket_addr_to_string(addr) ==
    int_to_string(addr.ip[1]) \o <<".">> \o int_to_string(addr.ip[2]) \o <<".">>
        \o int_to_string(addr.ip[3]) \o <<".">> \o int_to_string(addr.ip[4])
        \o <<":">> \o int_to_string(addr.port)

parses_as_u8(piece) == str_parse_uint(piece, 8).ok

\* iter().flat_map(|s| s.parse::<u8>()).collect(): the pieces that parse, in
\* order; a piece that does not parse contributes nothing
flat_map_parse_u8(pieces) ==
    LET good == SelectSeq(pieces, parses_as_u8)
    IN  [i \in 1..Len(good) |-> str_parse_uint(good[i], 8).val]

\* util::vec_to_array: Vec<u8> -> [u8; 4], the four elements in order
vec_to_array(v) == [i \in 1..4 |-> v[i]]

\* ------------------------------------------------------------------------
\* Results (anyhow::Result<T>)
\* ------------------------------------------------------------------------

Ok(v) == [ok |-> TRUE, val |-> v, err |-> ""]

Err(e) == [ok |-> FALSE, val |-> <<>>, err |-> e]

\* ------------------------------------------------------------------------
\* XOR-MAPPED-ADDRESS builder
\* ------------------------------------------------------------------------

\* The port is XORed with the low half of the cookie (magic_bytes[2..4]).
create_xor_mapped_address_and_port_low_half(address_port) ==
    LET address_port_vec == str_split(socket_addr_to_string(address_port), ":")
        port_int == str_parse_uint(address_port_vec[2], 16)
        magic_bytes == to_be_bytes(MAGIC_COOKIE, 4)
        magic_16bits == from_be_bytes(SubSeq(magic_bytes, 3, 4))
        xor_port == to_be_bytes(BitXor(port_int.val, magic_16bits, 16), 2)
        address_array == vec_to_array(flat_map_parse_u8(str_split(address_port_vec[1], ".")))
        xor_address == u32_to_be_bytes(u32_xor(u32_from_be_bytes(address_array), magic_bytes))
    IN  IF ~port_int.ok THEN Err("ParseIntError")
        ELSE Ok(<<0, 1>> \o xor_port \o xor_address)

create_xor_mapped_address_and_port(address_port) ==
    LET fix0 == 0
        family_ipv4 == 1
        address_port_str == socket_addr_to_string(address_port)
        address_port_vec == str_split(address_port_str, ":")
        address == address_port_vec[1]
        port_int == str_parse_uint(address_port_vec[2], 16)
        magic_bytes == to_be_bytes(MAGIC_COOKIE, 4)
        magic_bytes_16bits == SubSeq(magic_bytes, 1, 2)
        magic_16bits == from_be_bytes(magic_bytes_16bits)
        xor_port_u16 == BitXor(port_int.val, magic_16bits, 16)
        xor_port == to_be_bytes(xor_port_u16, 2)
        address_vec == str_split(address, ".")
        address_vec_int == flat_map_parse_u8(address_vec)
        address_array == vec_to_array(address_vec_int)
        address_int == u32_from_be_bytes(address_array)
        xor_address_u32 == u32_xor(address_int, to_be_bytes(MAGIC_COOKIE, 4))
        xor_address == u32_to_be_bytes(xor_address_u32)
    IN  IF ~port_int.ok THEN Err("ParseIntError")
        ELSE Ok(<<fix0, family_ipv4, xor_port[1], xor_port[2],
                  xor_address[1], xor_address[2], xor_address[3], xor_address[4]>>)

\* ------------------------------------------------------------------------
\* STUN message types
\* ------------------------------------------------------------------------

StunMessageClass == {"Request", "Indication", "SuccessResponse", "ErrorResponse"}

StunMessageMethod ==
    {"Binding", "Allocate", "Refresh", "Send", "Data", "CreatePermission", "ChannelBind"}

str_to_class(str) ==
    IF str = <<"0", "0">> THEN Ok("Request")
    ELSE IF str = <<"0", "1">> THEN Ok("Indication")
    ELSE IF str = <<"1", "0">> THEN Ok("SuccessResponse")
    ELSE IF str = <<"1", "1">> THEN Ok("ErrorResponse")
    ELSE Err("STUN message class NG")

int_to_class(i) ==
    IF i = 1 THEN Ok("Binding")
    ELSE IF i = 3 THEN Ok("Allocate")
    ELSE IF i = 4 THEN Ok("Refresh")
    ELSE IF i = 6 THEN Ok("Send")
    ELSE IF i = 7 THEN Ok("Data")
    ELSE IF i = 8 THEN Ok("CreatePermission")
    ELSE IF i = 9 THEN Ok("ChannelBind")
    ELSE Err("STUN message class NG")

StunMessageType(class, method) == [class |-> class, method |-> method]

StunMessageHeader(message_type, message_length, magic_cookie, transaction_id) ==
    [message_type |-> message_type, message_length |-> message_length,
     magic_cookie |-> magic_cookie, transaction_id |-> transaction_id]

StunMessageAttribute(attribute_type, length, value) ==
    [attribute_type |-> attribute_type, length |-> length, value |-> value]

StunMessage(header, attribute) == [header |-> header, attribute |-> attribute]

\* ------------------------------------------------------------------------
\* StunMessage::parse and StunMessage::build
\* ------------------------------------------------------------------------

\* Only the first two bytes of the cookie are compared.
magic_cookie_ok_first_half(magic_cookie_4_bytes) ==
    SubSeq(magic_cookie_4_bytes, 1, 2) = SubSeq(to_be_bytes(MAGIC_COOKIE, 4), 1, 2)

\* ensure!(magic_cookie_4_bytes == MAGIC_COOKIE.to_be_bytes(), "magic cookie NG")
magic_cookie_ok(magic_cookie_4_bytes) ==
    magic_cookie_4_bytes = to_be_bytes(MAGIC_COOKIE, 4)

parse(buffer) ==
    LET header == SubSeq(buffer, 1, 20)
        attribute == SubSeq(buffer, 21, Len(buffer))
        message_type_16 == format_08b(header[1]) \o format_08b(header[2])
        c0 == message_type_16[11 + 1]
        message_type_15 == string_remove(message_type_16, 11)
        c1 == message_type_15[7 + 1]
        message_type_14 == string_remove(message_type_15, 7)
        message_class == <<c0, c1>>
        class == str_to_class(message_class)
        message_type_int == from_str_radix2(message_type_14, 8)
        method == int_to_class(message_type_int.val)
        message_length_2_bytes == SubSeq(header, 3, 4)
        magic_cookie_4_bytes == SubSeq(header, 5, 8)
        transaction_id_12_bytes == SubSeq(header, 9, 20)
        message_header ==
            StunMessageHeader(StunMessageType(class.val, method.val),
                              message_length_2_bytes, magic_cookie_4_bytes,
                              transaction_id_12_bytes)
        message_attribute ==
            StunMessageAttribute(SubSeq(attribute, 1, 2), SubSeq(attribute, 3, 4),
                                 SubSeq(attribute, 5, Len(attribute)))
    IN  IF ~class.ok THEN Err(class.err)
        ELSE IF ~message_type_int.ok THEN Err("ParseIntError")
        ELSE IF ~method.ok THEN Err(method.err)
        ELSE IF ~magic_cookie_ok(magic_cookie_4_bytes) THEN Err("magic cookie NG")
        ELSE Ok(StunMessage(message_header, message_attribute))

class_bits(class) ==
    CASE class = "Request" -> <<"0", "0">>
      [] class = "Indication" -> <<"0", "1">>
      [] class = "SuccessResponse" -> <<"1", "0">>
      [] class = "ErrorResponse" -> <<"1", "1">>

method_bits(method) ==
    CASE method = "Binding" -> <<"0", "0", "0", "1">>
      [] method = "Allocate" -> <<"0", "0", "1", "1">>
      [] method = "Refresh" -> <<"0", "1", "0", "0">>
      [] method = "Send" -> <<"0", "1", "1", "0">>
      [] method = "Data" -> <<"0", "1", "1", "1">>
      [] method = "CreatePermission" -> <<"1", "0", "0", "0">>
      [] method = "ChannelBind" -> <<"1", "0", "0", "1">>

build(self) ==
    LET class == class_bits(self.header.message_type.class)
        c1 == SubSeq(class, 1, 1)
        c0 == SubSeq(class, 2, Len(class))
        method == method_bits(self.header.message_type.method)
        message_type_str ==
            <<"0", "0", "0", "0", "0", "0", "0">> \o c1 \o <<"0", "0", "0">> \o c0 \o method
        message_type_u16 == from_str_radix2(message_type_str, 16).val
        message_type == to_be_bytes(message_type_u16, 2)
        h == self.header
        header == message_type \o h.message_length \o h.magic_cookie \o h.transaction_id
        a == self.attribute
        attribute == a.attribute_type \o a.length \o a.value
    IN  header \o attribute

\* ------------------------------------------------------------------------
\* Inputs: peers, transaction ids, datagrams, messages
\* ------------------------------------------------------------------------

SocketAddrV4(a, b, c, d, port) == [ip |-> <<a, b, c, d>>, port |-> port]

TransactionId(k) == [i \in 1..12 |-> (k * 85 + i * 7) % 256]

TransactionIds == {TransactionId(k) : k \in 1..MaxTid}

CookieBytes == to_be_bytes(MAGIC_COOKIE, 4)

HeaderBytes(type, cookie, tid) == type \o <<0, 0>> \o cookie \o tid

\* Binding Requests, with an empty attribute section
BindingRequests == {HeaderBytes(<<0, 1>>, CookieBytes, tid) : tid \in TransactionIds}

\* A Binding Request followed by one 8-byte attribute (the longest datagram)
RequestWithAttribute ==
    <<0, 1, 0, 12>> \o CookieBytes \o TransactionId(1)
        \o <<128, 34, 0, 8, 255, 254, 253, 252, 251, 250, 249, 248>>

\* Binding Requests whose magic cookie is wrong
BadCookieRequests ==
    {HeaderBytes(<<0, 1>>, c, TransactionId(1)) :
        c \in {<<0, 0, 0, 0>>, <<33, 18, 164, 67>>, <<33, 18, 0, 0>>}}

\* Every other class/method the decoder accepts or refuses:
\* Allocate Request, Binding Indication / Success / Error as build writes
\* them, an unknown method, a reserved bit set
OtherTypeDatagrams ==
    {HeaderBytes(t, CookieBytes, TransactionId(1)) :
        t \in {<<0, 3>>, <<0, 17>>, <<1, 1>>, <<1, 17>>, <<0, 2>>, <<128, 1>>}}

\* Prefixes of a Binding Request: nothing, the 8 bytes up to the cookie, 12
\* bytes, and the header with 2 of the 4 attribute-header bytes
TruncatedDatagrams ==
    {SubSeq(RequestWithAttribute, 1, n) : n \in {0, 8, 12, 22}}

Datagrams ==
    BindingRequests \cup {RequestWithAttribute} \cup BadCookieRequests
        \cup OtherTypeDatagrams \cup TruncatedDatagrams

\* Source addresses of the datagrams the server receives
Peers == {SocketAddrV4(203, 0, 113, 5, 40000), SocketAddrV4(10, 0, 0, 1, 80)}

\* What recv_from returns: a datagram and its source
Inputs == {[dgram |-> d, src |-> src] : d \in Datagrams, src \in Peers}

NoDatagram == [dgram |-> <<>>, src |-> SocketAddrV4(0, 0, 0, 0, 0)]

NoMessage == Err("none")

NoRef == [in |-> NoDatagram, result |-> "none", sent |-> <<>>]

\* ------------------------------------------------------------------------
\* State
\* ------------------------------------------------------------------------

VARIABLES
    pc,                 \* position of serve: "Idle" (blocked in recv_from),
                        \* "Returned" (receive_and_send has returned, the
                        \* datagram is handled) or "Exited" (serve is left)
    cur,                \* the datagram being handled and its source
    buffer,             \* the 1024 bytes of receive_and_send's buffer
    requested_message,  \* the Result of StunMessage::parse
    response_message,   \* the StunMessage built for the reply, if any
    result,             \* the Result receive_and_send returns
    sent,               \* the send_to calls made for cur
    ref,                \* history: one earlier exchange, with its outcome
    m,                  \* codec round trip: the message given to build
    encoded,            \* codec round trip: build's bytes
    decoded,            \* codec round trip: parse's Result
    cpc,                \* codec round trip: position
    xaddr,              \* address builder: the peer address
    xval,               \* address builder: the Result
    xpc                 \* address builder: position

serverVars ==
    <<pc, cur, buffer, requested_message, response_message, result, sent, ref>>

codecVars == <<m, encoded, decoded, cpc>>

xorVars == <<xaddr, xval, xpc>>

vars == <<serverVars, codecVars, xorVars>>

\* [0u8; 1024]
ZeroBuffer == [i \in 1..BufSize |-> 0]

ServerIdle ==
    /\ pc = "Idle"
    /\ cur = NoDatagram
    /\ buffer = ZeroBuffer
    /\ requested_message = NoMessage
    /\ response_message = NoMessage
    /\ result = "none"
    /\ sent = <<>>
    /\ ref = NoRef

CodecIdle ==
    /\ m = NoMessage
    /\ encoded = <<>>
    /\ decoded = NoMessage
    /\ cpc = "off"

XorIdle ==
    /\ xaddr = NoDatagram.src
    /\ xval = NoMessage
    /\ xpc = "off"

\* ------------------------------------------------------------------------
\* The listener: serve and receive_and_send
\* ------------------------------------------------------------------------

\* The buffer is not initialised: it keeps what the memory held.
StaleBuffer(mem) == mem

\* let mut buffer = [0u8; 1024]; mem is what the memory held before
NewBuffer(mem) == ZeroBuffer

\* recv_from(&mut buffer): the datagram's bytes, cut at the buffer's size,
\* overwrite the start of the buffer
recv_from(buf, dgram) ==
    LET size == IF Len(dgram) <= Len(buf) THEN Len(dgram) ELSE Len(buf)
    IN  SubSeq(dgram, 1, size) \o SubSeq(buf, size + 1, Len(buf))

\* Only the method is tested.
is_binding_request_method_only(requested) ==
    requested.header.message_type.method = "Binding"

\* matches!(class, Request) && matches!(method, Binding)
is_binding_request(requested) ==
    /\ requested.header.message_type.class = "Request"
    /\ requested.header.message_type.method = "Binding"

\* The response carries a transaction id of its own.
response_header_new_tid(requested) ==
    StunMessageHeader(StunMessageType("SuccessResponse", "Binding"), <<0, 12>>,
                      to_be_bytes(MAGIC_COOKIE, 4), [i \in 1..12 |-> 0])

response_header(requested) ==
    StunMessageHeader(StunMessageType("SuccessResponse", "Binding"), <<0, 12>>,
                      to_be_bytes(MAGIC_COOKIE, 4), requested.header.transaction_id)

\* The declared length counts the attribute's header too.
response_attribute_len12(xor_mapped_address) ==
    StunMessageAttribute(to_be_bytes(32, 2), to_be_bytes(12, 2), xor_mapped_address)

response_attribute(xor_mapped_address) ==
    StunMessageAttribute(to_be_bytes(32, 2), to_be_bytes(8, 2), xor_mapped_address)

\* The error is propagated with `?`: serve returns.
serve_propagate(res) == IF res = "ok" THEN "Idle" ELSE "Exited"

\* loop { let _ = receive_and_send(..).map_err(|e| println!(..)); }
serve_next(res) == "Idle"

Init == ServerIdle /\ CodecIdle /\ XorIdle

\* One call of receive_and_send in which recv_from returns the datagram d
\* from src: the buffer, recv_from, parse(..)?, the address builder (..)?,
\* the dispatch, build and send_to, whose success is the network's.
ReceiveAndSend ==
    /\ pc = "Idle"
    /\ \E in \in Inputs :
        LET d == in.dgram
            src == in.src
            buf == recv_from(NewBuffer(buffer), d)
            requested == parse(buf)
            xor_mapped_address == create_xor_mapped_address_and_port(src)
            responds ==
                /\ requested.ok
                /\ xor_mapped_address.ok
                /\ is_binding_request(requested.val)
            response ==
                StunMessage(response_header(requested.val),
                            response_attribute(xor_mapped_address.val))
            res == build(response)
        IN  /\ cur' = in
            /\ buffer' = buf
            /\ requested_message' = requested
            /\ IF responds
                  THEN /\ response_message' = Ok(response)
                       /\ \E delivered \in BOOLEAN :
                            /\ sent' = <<[to |-> src, bytes |-> res,
                                          delivered |-> delivered]>>
                            /\ result' = IF delivered THEN "ok" ELSE "send_err"
                  ELSE /\ response_message' = NoMessage
                       /\ sent' = <<>>
                       /\ result' = IF ~requested.ok THEN "decode_err"
                                    ELSE IF ~xor_mapped_address.ok THEN "addr_err"
                                    ELSE "ok"
    /\ pc' = "Returned"
    /\ UNCHANGED <<ref, codecVars, xorVars>>

\* One call of receive_and_send in which recv_from returns an error
ReceiveFail ==
    /\ pc = "Idle"
    /\ cur' = NoDatagram
    /\ buffer' = NewBuffer(buffer)
    /\ requested_message' = NoMessage
    /\ response_message' = NoMessage
    /\ result' = "recv_err"
    /\ sent' = <<>>
    /\ pc' = "Returned"
    /\ UNCHANGED <<ref, codecVars, xorVars>>

\* receive_and_send has returned and its locals are gone (the memory of the
\* buffer keeps its bytes); serve prints the error, if any, and loops.
ServeLoop ==
    /\ pc = "Returned"
    /\ pc' = serve_next(result)
    /\ cur' = NoDatagram
    /\ requested_message' = NoMessage
    /\ response_message' = NoMessage
    /\ result' = "none"
    /\ sent' = <<>>
    /\ UNCHANGED <<buffer, ref, codecVars, xorVars>>

\* ServeLoop, with the exchange that ends written to the history, which
\* keeps one exchange
ServeLoopKeep ==
    /\ pc = "Returned"
    /\ ref = NoRef
    /\ pc' = serve_next(result)
    /\ ref' = [in |-> cur, result |-> result, sent |-> sent]
    /\ cur' = NoDatagram
    /\ requested_message' = NoMessage
    /\ response_message' = NoMessage
    /\ result' = "none"
    /\ sent' = <<>>
    /\ UNCHANGED <<buffer, codecVars, xorVars>>

Next == ReceiveAndSend \/ ReceiveFail \/ ServeLoop \/ ServeLoopKeep

Spec == Init /\ [][Next]_vars

\* serve goes round its loop once receive_and_send has returned; arrivals
\* are the network's and are not forced.
SpecLive == Spec /\ WF_vars(ServeLoop \/ ServeLoopKeep)

\* ------------------------------------------------------------------------
\* The codec on its own: build, then parse
\* ------------------------------------------------------------------------

\* Attribute sections: an XOR-MAPPED-ADDRESS of 8 bytes, and an attribute
\* whose value fills a receive buffer after the two headers
CodecAttributes ==
    {StunMessageAttribute(<<0, 32>>, <<0, 8>>, <<0, 1, 189, 82, 234, 18, 213, 71>>),
     StunMessageAttribute(<<128, 34>>, to_be_bytes(BufSize - 24, 2),
                          [i \in 1..(BufSize - 24) |-> (i % 255) + 1])}

\* Well-formed single-attribute messages
CodecMessages ==
    {StunMessage(StunMessageHeader(StunMessageType(c, md), len, CookieBytes, tid), a) :
        c \in StunMessageClass, md \in StunMessageMethod,
        len \in {<<0, 12>>, <<3, 236>>}, tid \in TransactionIds, a \in CodecAttributes}

InitCodec ==
    /\ ServerIdle
    /\ XorIdle
    /\ m \in {Ok(x) : x \in CodecMessages}
    /\ encoded = <<>>
    /\ decoded = NoMessage
    /\ cpc = "build"

Encode ==
    /\ cpc = "build"
    /\ encoded' = build(m.val)
    /\ cpc' = "parse"
    /\ UNCHANGED <<m, decoded, serverVars, xorVars>>

\* parse takes the 1024-byte buffer the bytes were received into
Decode ==
    /\ cpc = "parse"
    /\ decoded' = parse(recv_from(NewBuffer(ZeroBuffer), encoded))
    /\ cpc' = "done"
    /\ UNCHANGED <<m, encoded, serverVars, xorVars>>

NextCodec == Encode \/ Decode

SpecCodec == InitCodec /\ [][NextCodec]_vars

\* ------------------------------------------------------------------------
\* The address builder on its own
\* ------------------------------------------------------------------------

XorPeers ==
    {[ip |-> ip, port |-> port] :
        ip \in {<<203, 0, 113, 5>>, <<10, 0, 0, 1>>, <<0, 0, 0, 0>>,
                <<255, 255, 255, 255>>, <<33, 18, 164, 66>>, <<192, 168, 1, 100>>,
                <<127, 0, 0, 1>>, <<8, 8, 8, 8>>},
        port \in {0, 1, 80, 256, 3478, 8466, 40000, 65535}}

InitXor ==
    /\ ServerIdle
    /\ CodecIdle
    /\ xaddr \in XorPeers
    /\ xval = NoMessage
    /\ xpc = "build"

XorBuild ==
    /\ xpc = "build"
    /\ xval' = create_xor_mapped_address_and_port(xaddr)
    /\ xpc' = "done"
    /\ UNCHANGED <<xaddr, serverVars, codecVars>>

NextXor == XorBuild

SpecXor == InitXor /\ [][NextXor]_vars

\* ------------------------------------------------------------------------
\* Properties
\* ------------------------------------------------------------------------

\* receive_and_send has returned for the datagram cur
Handled == pc = "Returned" /\ result # "recv_err"

DecodedAs(class, method) ==
    /\ requested_message.ok
    /\ requested_message.val.header.message_type.class = class
    /\ requested_message.val.header.message_type.method = method

\* 0x2112A442, big-endian
Cookie == <<33, 18, 164, 66>>

\* C1: a datagram decoded as a Binding Request with transaction id T gets
\* one response, whose bytes 8..19 are T (the request's bytes 8..19) and
\* whose class/method are SuccessResponse/Binding (type 0x0101 on the wire).
C1_TransactionIdEchoed ==
    (Handled /\ DecodedAs("Request", "Binding")) =>
        /\ Len(sent) = 1
        /\ SubSeq(sent[1].bytes, 9, 20) = requested_message.val.header.transaction_id
        /\ Len(cur.dgram) >= 20 =>
               SubSeq(sent[1].bytes, 9, 20) = SubSeq(cur.dgram, 9, 20)
        /\ response_message.ok
        /\ response_message.val.header.message_type =
               [class |-> "SuccessResponse", method |-> "Binding"]
        /\ SubSeq(sent[1].bytes, 1, 2) = <<1, 1>>

C1_Witness ==
    /\ Handled
    /\ cur.dgram = HeaderBytes(<<0, 1>>, Cookie, TransactionId(2))
    /\ Len(sent) = 1
    /\ SubSeq(sent[1].bytes, 9, 20) = TransactionId(2)

\* C2: for an IPv4 peer a.b.c.d:p the builder returns the 8 bytes
\* [0, 1, BE16(p XOR 0x2112), BE32(a.b.c.d XOR 0x2112A442)], and XORing
\* bytes 2..3 and 4..7 with the same constants again gives p and a.b.c.d.
C2_XorMappedAddress ==
    xpc = "done" =>
        /\ xval.ok
        /\ Len(xval.val) = 8
        /\ SubSeq(xval.val, 1, 2) = <<0, 1>>
        /\ SubSeq(xval.val, 3, 4) =
               <<BitXor(xaddr.port, 8466, 16) \div 256, BitXor(xaddr.port, 8466, 16) % 256>>
        /\ \A i \in 1..4 : xval.val[4 + i] = BitXor(xaddr.ip[i], Cookie[i], 8)
        /\ BitXor(xval.val[3] * 256 + xval.val[4], 8466, 16) = xaddr.port
        /\ \A i \in 1..4 : BitXor(xval.val[4 + i], Cookie[i], 8) = xaddr.ip[i]
        /\ xaddr = SocketAddrV4(203, 0, 113, 5, 40000) =>
               xval.val = <<0, 1, 189, 82, 234, 18, 213, 71>>

C2_Witness ==
    /\ xpc = "done"
    /\ xaddr = SocketAddrV4(203, 0, 113, 5, 40000)
    /\ xval.ok
    /\ xval.val = <<0, 1, 189, 82, 234, 18, 213, 71>>

\* C3: parse applied to the bytes build produced for a well-formed
\* single-attribute message gives that message back, field by field.
C3_DecodeEncodeIdentity ==
    cpc = "done" => (decoded.ok /\ decoded.val = m.val)

\* C4: every response has message_length 12, the magic cookie, and one
\* attribute of type 0x0020 and declared length 8 whose value is the
\* XOR-MAPPED-ADDRESS of the datagram's source; it is 32 bytes long, so
\* message_length is the size of the attribute section and the declared
\* length is the size of the value.
C4_ResponseLayout ==
    \A i \in 1..Len(sent) :
        LET res == sent[i].bytes
        IN  /\ Len(res) = 32
            /\ SubSeq(res, 3, 4) = <<0, 12>>
            /\ SubSeq(res, 5, 8) = Cookie
            /\ SubSeq(res, 21, 22) = <<0, 32>>
            /\ SubSeq(res, 23, 24) = <<0, 8>>
            /\ SubSeq(res, 25, 26) = <<0, 1>>
            /\ BitXor(res[27] * 256 + res[28], 8466, 16) = cur.src.port
            /\ \A k \in 1..4 : BitXor(res[28 + k], Cookie[k], 8) = cur.src.ip[k]
            /\ res[3] * 256 + res[4] = Len(res) - 20
            /\ res[23] * 256 + res[24] = Len(res) - 24

C4_Witness ==
    /\ Handled
    /\ cur.src = SocketAddrV4(203, 0, 113, 5, 40000)
    /\ Len(sent) = 1
    /\ Len(sent[1].bytes) = 32
    /\ SubSeq(sent[1].bytes, 21, 32) = <<0, 32, 0, 8, 0, 1, 189, 82, 234, 18, 213, 71>>

\* The datagram's bytes 4..7 are not 21 12 A4 42 (a datagram that ends
\* before byte 7 has no such bytes)
BadCookie(d) == Len(d) < 8 \/ SubSeq(d, 5, 8) # Cookie

\* C5: a datagram whose bytes 4..7 are not the magic cookie makes parse
\* fail, and no response is sent for it.
C5_BadCookieRejected ==
    (Handled /\ BadCookie(cur.dgram)) =>
        /\ ~requested_message.ok
        /\ result = "decode_err"
        /\ sent = <<>>

C5_Witness ==
    /\ Handled
    /\ cur.dgram = HeaderBytes(<<0, 1>>, <<0, 0, 0, 0>>, TransactionId(1))
    /\ ~requested_message.ok
    /\ requested_message.err = "magic cookie NG"
    /\ sent = <<>>

\* C6: a response is sent (send_to is called) exactly when the datagram
\* decodes as class Request, method Binding; never more than one per
\* datagram, and always to the datagram's source.
C6_ResponseIffBindingRequest ==
    /\ Len(sent) <= 1
    /\ \A i \in 1..Len(sent) : sent[i].to = cur.src
    /\ Handled => (sent # <<>> <=> DecodedAs("Request", "Binding"))

C6_Witness ==
    /\ Handled
    /\ DecodedAs("Request", "Allocate")
    /\ result = "ok"
    /\ sent = <<>>

\* The datagram is a complete Binding Request header with the magic cookie.
WellFormedBindingRequest(d) ==
    /\ Len(d) >= 20
    /\ SubSeq(d, 1, 2) = <<0, 1>>
    /\ SubSeq(d, 5, 8) = Cookie

\* C7: serve never leaves its loop, every handling returns to Idle, and a
\* well-formed Binding Request is decoded and answered whatever was
\* received, refused or failed to be sent before it.
C7_LoopSurvives ==
    /\ [](pc # "Exited")
    /\ []((Handled /\ WellFormedBindingRequest(cur.dgram)) =>
            (DecodedAs("Request", "Binding") /\ Len(sent) = 1))
    /\ ((pc # "Idle") ~> (pc = "Idle"))

C7_Witness ==
    /\ Handled
    /\ ref.result = "decode_err"
    /\ WellFormedBindingRequest(cur.dgram)
    /\ Len(sent) = 1
    /\ sent[1].delivered

\* The datagram ends inside the 20-byte header, or inside the 4-byte
\* attribute header (a datagram of exactly 20 bytes has an empty attribute
\* section).
TruncatedDatagram(d) == Len(d) < 20 \/ (Len(d) > 20 /\ Len(d) < 24)

\* C8: a truncated datagram is a decode failure and gets no response.
C8_TruncatedRejected ==
    (Handled /\ TruncatedDatagram(cur.dgram)) =>
        (~requested_message.ok /\ sent = <<>>)

\* C9: the type field build writes for a class and a method is decoded by
\* parse to the same class and the same method.
C9_TypeCodecInverse ==
    cpc = "done" =>
        /\ decoded.ok
        /\ decoded.val.header.message_type = m.val.header.message_type

\* What the peer can observe of an exchange: the response, no response,
\* or (to the operator) the error
Outcome(res, snt) ==
    IF snt # <<>> THEN <<"response", snt[1].to, snt[1].bytes>>
    ELSE IF res = "ok" THEN <<"none">>
    ELSE <<"error", res>>

\* C10: the outcome of handling a datagram depends on its bytes and its
\* source only: it equals the outcome the same datagram from the same
\* source had earlier, whatever was handled in between.
C10_Stateless ==
    (pc = "Returned" /\ ref # NoRef /\ ref.in = cur) =>
        Outcome(result, sent) = Outcome(ref.result, ref.sent)

C10_Witness ==
    /\ pc = "Returned"
    /\ ref # NoRef
    /\ ref.in = cur
    /\ cur.dgram = SubSeq(RequestWithAttribute, 1, 8)
    /\ Len(sent) = 1
    /\ Outcome(result, sent) = Outcome(ref.result, ref.sent)

====
